---- MODULE Spec2Model ----
(***************************************************************************)
(* Split-test result pipeline of api/app_analytics/split_testing/tasks.py. *)
(* The database tables the task reads (raw evaluations, identities,        *)
(* conversion events, feature configuration) and the SplitTest table it    *)
(* writes are the state; one action per database statement of the task.    *)
(***************************************************************************)
EXTENDS Integers, Sequences, FiniteSets, TLC

\* ------------------------------------------------------------------ bounds
MaxEdits == 3        \* data edits in one behaviour
MaxRuns == 2         \* task runs started in one behaviour
MaxDup == 2          \* copies of one raw record / conversion event
MaxEditsConc == 2    \* data edits when runs may overlap
MaxRunsConc == 2     \* task runs started when runs may overlap
MaxEditsFan == 3     \* data edits before the fan-out
MaxRunsFan == 2      \* work items started after one fan-out
MaxEditsDup == 2     \* data edits around runs that leave duplicate rows
MaxRunsDup == 3      \* task runs started around duplicate rows
MaxEditsMigrate == 2 \* identities added or deleted around migration requests
MaxRequests == 2     \* migrate_to_edge requests in one behaviour
MaxLimit == 3        \* largest MAX_SELF_MIGRATABLE_IDENTITIES setting

\* ------------------------------------------------------------ the universe
Workers == {1, 2}
Features == {1, 2}
FeatureIds == Features \cup {3}          \* 3 is an id no Feature row has
Envs == {1, 2}
Identifiers == {1, 2}
NULL == 0 - 1                            \* identity_identifier IS NULL
None == 0                                \* the Control arm's option id

FeatureName(f) == IF f = 1 THEN "flag_a" ELSE "flag_b"
OptionIds(f) == IF f = 1 THEN {11, 12} ELSE {21}
percentage_allocation(o) == IF o = 11 THEN 30 ELSE IF o = 12 THEN 40 ELSE 50
use_identity_composite_key_for_hashing(e) == e = 1

AllIdentities == Envs \X Identifiers      \* Identity rows: <<environment, identifier>>
EvalKeys == {FeatureName(f) : f \in Features} \X Envs \X (Identifiers \cup {NULL})

VARIABLES
  rawEvals,     \* FeatureEvaluationRaw: EvalKeys -> number of records
  identities,   \* Identity rows
  convEvents,   \* ConversionEvent: identity -> number of events in its environment
  options,      \* feature.multivariate_options per feature
  fsCount,      \* number of FeatureState rows of a feature in an environment
  store,        \* SplitTest rows, the primary key is the index
  clock,        \* timezone.now()
  edits, runs,  \* budget counters
  pc, feat, ei, cur, upd, new, computed,   \* per worker
  prev,         \* the last completed run, while the data is unchanged
  begin,        \* per worker: the SplitTest rows when its run started
  aborted,      \* the last run given up part-way, while the data is unchanged
  ftype,        \* Feature.type per feature
  fanPc, fanTodo,   \* _update_split_tests: position and features left to enqueue
  queue,        \* work items of update_features_split_tests not yet picked up
  sent,         \* the work items the invocation has enqueued
  outcome,      \* how the work items of the invocation ended
  mig           \* migrate_to_edge: the settings and the last request's result

data == <<rawEvals, identities, convEvents, options, fsCount>>
locals == <<feat, ei, cur, upd, new, computed>>
fan == <<ftype, fanPc, fanTodo, sent>>
vars == <<rawEvals, identities, convEvents, options, fsCount, store, clock,
          edits, runs, pc, feat, ei, cur, upd, new, computed, prev,
          begin, aborted, ftype, fanPc, fanTodo, queue, sent, outcome, mig>>

NoPrev == [f |-> 0, rows |-> <<>>]
MULTIVARIATE == "MULTIVARIATE"
STANDARD == "STANDARD"
Empty == [x \in {} |-> 0]

\* ------------------------------------------------------------ pure helpers
RECURSIVE SortedSeq(_)
SortedSeq(S) ==
  IF S = {} THEN <<>>
  ELSE LET m == CHOOSE x \in S : \A y \in S : x <= y
       IN <<m>> \o SortedSeq(S \ {m})

RECURSIVE SumOver(_, _)
SumOver(S, g) ==
  IF S = {} THEN 0
  ELSE LET x == CHOOSE y \in S : TRUE IN g[x] + SumOver(S \ {x}, g)

IdentityId(i) == (i[1] - 1) * 2 + i[2]
FeatureStateId(f, e) == (f - 1) * 2 + e

get_hash_key(i, composite) ==
  IF composite THEN 10 * i[1] + i[2] ELSE IdentityId(i)

get_hashed_percentage(fsId, key) == (fsId * 17 + key * 43) % 100

RECURSIVE Bucket(_, _, _)
Bucket(opts, start, pct) ==
  IF opts = <<>> THEN None
  ELSE LET limit == percentage_allocation(Head(opts)) + start
       IN IF start <= pct /\ pct < limit THEN Head(opts)
          ELSE Bucket(Tail(opts), limit, pct)

\* feature_state.get_multivariate_feature_state_value(identity_hash_key)
get_multivariate_feature_state_value(f, e, key) ==
  Bucket(SortedSeq(options[f]), 0, get_hashed_percentage(FeatureStateId(f, e), key))

gather_split_test_metrics(evaluation_counts, conversion_counts) ==
  <<evaluation_counts, conversion_counts>>

\* ------------------------------------------------- update_features_split_tests
EnvironmentIds(f) == {e \in Envs : fsCount[<<f, e>>] >= 1}

\* the query without its identity_identifier__isnull filter
QsValuesList_with_anonymous(f) ==
  {<<k[2], k[3]>> : k \in {k \in EvalKeys :
       /\ rawEvals[k] > 0
       /\ k[1] = FeatureName(f)
       /\ k[2] \in EnvironmentIds(f)}}

\* the query without its feature_name filter
QsValuesList_any_feature(f) ==
  {<<k[2], k[3]>> : k \in {k \in EvalKeys :
       /\ rawEvals[k] > 0
       /\ k[2] \in EnvironmentIds(f)
       /\ k[3] # NULL}}

QsValuesList(f) ==
  {<<k[2], k[3]>> : k \in {k \in EvalKeys :
       /\ rawEvals[k] > 0
       /\ k[1] = FeatureName(f)
       /\ k[2] \in EnvironmentIds(f)
       /\ k[3] # NULL}}

EnvironmentIdentifiers(qs) ==
  [e \in {p[1] : p \in qs} |-> {p[2] : p \in {q \in qs : q[1] = e}}]

\* ------------------------------------------------ _save_environment_split_test
EvaluatedIdentities(e, identifiers) ==
  {i \in identities : i[1] = e /\ i[2] \in identifiers}

ConversionEvents(e, evaluated) ==
  {i \in AllIdentities : convEvents[i] > 0 /\ i[1] = e /\ i \in evaluated}

ArmId(f, e, i) ==
  get_multivariate_feature_state_value(
      f, e, get_hash_key(i, use_identity_composite_key_for_hashing(e)))

\* an entry for every option the feature ever had
InitialCounts_all_options(f) == [a \in OptionIds(f) \cup {None} |-> 0]

\* only the Control entry is initialised
InitialCounts_control_only(f) == [a \in {None} |-> 0]

InitialCounts(f) == [a \in options[f] \cup {None} |-> 0]

\* one increment per conversion event instead of one per identity
Converted_per_event(i, conversion_identities) ==
  IF i \in conversion_identities THEN convEvents[i] ELSE 0

Converted(i, conversion_identities) == IF i \in conversion_identities THEN 1 ELSE 0

RECURSIVE CountLoop(_, _, _, _, _, _)
CountLoop(todo, f, e, conversion_identities, ec, cc) ==
  IF todo = {} THEN <<ec, cc>>
  ELSE LET i == CHOOSE x \in todo : TRUE
           id == ArmId(f, e, i)
       IN CountLoop(todo \ {i}, f, e, conversion_identities,
                    [ec EXCEPT ![id] = @ + 1],
                    [cc EXCEPT ![id] = @ + Converted(i, conversion_identities)])

\* the lookup filters on the environment and the option only
Matches_any_feature(rows, f, e, a) ==
  {k \in 1..Len(rows) : /\ rows[k].environment = e
                        /\ rows[k].option = a}

Matches(rows, f, e, a) ==
  {k \in 1..Len(rows) : /\ rows[k].feature = f
                        /\ rows[k].environment = e
                        /\ rows[k].option = a}

\* .last() in place of .first(): the highest primary key
First_highest(rows, f, e, a) ==
  IF Matches(rows, f, e, a) = {} THEN 0
  ELSE CHOOSE k \in Matches(rows, f, e, a) : \A j \in Matches(rows, f, e, a) : k >= j

\* the Control lookup written as "= NULL", which matches no row
First_null_equality(rows, f, e, a) ==
  IF a = None \/ Matches(rows, f, e, a) = {} THEN 0
  ELSE CHOOSE k \in Matches(rows, f, e, a) : \A j \in Matches(rows, f, e, a) : k <= j

\* qs_existing_split_tests.filter(...).first(): the lowest primary key, or 0
First(rows, f, e, a) ==
  IF Matches(rows, f, e, a) = {} THEN 0
  ELSE CHOOSE k \in Matches(rows, f, e, a) : \A j \in Matches(rows, f, e, a) : k <= j

NewSplitTest(f, e, a, ec, cc, pvalue, now) ==
  [feature |-> f, environment |-> e, option |-> a,
   evaluation_count |-> ec[a], conversion_count |-> cc[a],
   pvalue |-> pvalue, updated_at |-> now]

ItemsOrder(ec) == SortedSeq(DOMAIN ec \ {None}) \o <<None>>

ExistingSplitTests(rows, f, e, ec, cc, pvalue, now) ==
  {[pk |-> First(rows, f, e, a), row |-> NewSplitTest(f, e, a, ec, cc, pvalue, now)] :
     a \in {b \in DOMAIN ec : First(rows, f, e, b) # 0}}

NewSplitTests(rows, f, e, ec, cc, pvalue, now) ==
  LET order == ItemsOrder(ec)
      fresh == SelectSeq(order, LAMBDA a : First(rows, f, e, a) = 0)
  IN [k \in 1..Len(fresh) |-> NewSplitTest(f, e, fresh[k], ec, cc, pvalue, now)]

\* the counts are added to the stored ones instead of replacing them
UpdateFields_accumulate(old, u) ==
  [old EXCEPT !.evaluation_count = @ + u.evaluation_count,
              !.conversion_count = @ + u.conversion_count,
              !.pvalue = u.pvalue,
              !.updated_at = u.updated_at]

\* "pvalue" is missing from the list of updated fields
UpdateFields_without_pvalue(old, u) ==
  [old EXCEPT !.evaluation_count = u.evaluation_count,
              !.conversion_count = u.conversion_count,
              !.updated_at = u.updated_at]

UpdateFields(old, u) ==
  [old EXCEPT !.evaluation_count = u.evaluation_count,
              !.conversion_count = u.conversion_count,
              !.pvalue = u.pvalue,
              !.updated_at = u.updated_at]

bulk_update(rows, objs) ==
  [k \in 1..Len(rows) |->
     IF \E u \in objs : u.pk = k
     THEN UpdateFields(rows[k], (CHOOSE u \in objs : u.pk = k).row)
     ELSE rows[k]]

\* the rows of the environment are replaced instead of kept
bulk_create_replacing(rows, objs) ==
  SelectSeq(rows, LAMBDA r : \A k \in 1..Len(objs) :
               r.feature # objs[k].feature \/ r.environment # objs[k].environment) \o objs

bulk_create(rows, objs) == rows \o objs

\* no request made; the Dynamo table is not configured
NoRequest ==
  [table |-> FALSE, max_identities |-> 0, found |-> FALSE,
   can_migrate |-> FALSE, identity_count |-> 0, response |-> "none",
   triggered |-> 0, requests |-> 0]

\* ----------------------------------------------------------------- state
InitTables ==
  /\ rawEvals = [k \in EvalKeys |-> 0]
  /\ identities = AllIdentities
  /\ convEvents = [i \in AllIdentities |-> 0]
  /\ options = [f \in Features |-> OptionIds(f)]
  /\ fsCount = [p \in Features \X Envs |-> 1]
  /\ store = <<>>
  /\ clock = 0
  /\ edits = 0
  /\ runs = 0
  /\ pc = [w \in Workers |-> "idle"]
  /\ feat = [w \in Workers |-> 0]
  /\ ei = [w \in Workers |-> Empty]
  /\ cur = [w \in Workers |-> None]
  /\ upd = [w \in Workers |-> {}]
  /\ new = [w \in Workers |-> <<>>]
  /\ computed = [w \in Workers |-> Empty]
  /\ prev = NoPrev
  /\ begin = [w \in Workers |-> <<>>]
  /\ aborted = NoPrev
  /\ fanPc = "idle"
  /\ fanTodo = {}
  /\ queue = <<>>
  /\ sent = <<>>
  /\ outcome = Empty

Init ==
  /\ InitTables
  /\ ftype = [f \in Features |-> MULTIVARIATE]
  /\ mig = NoRequest

Quiescent == \A w \in Workers : pc[w] = "idle"

Todo(w) == DOMAIN ei[w] \ DOMAIN computed[w]

\* the environments whose save call has returned in worker w's run
Saved(w) == DOMAIN computed[w] \ {cur[w]}

\* ------------------------------------------------------------ the task
\* lines 41-60: load the feature and group the distinct identifiers
Start(w, fid, maxRuns) ==
  /\ pc[w] = "idle"
  /\ runs < maxRuns
  /\ runs' = runs + 1
  /\ IF fid \in Features
     THEN /\ pc' = [pc EXCEPT ![w] = "loop"]
          /\ feat' = [feat EXCEPT ![w] = fid]
          /\ ei' = [ei EXCEPT ![w] = EnvironmentIdentifiers(QsValuesList(fid))]
     ELSE /\ pc' = [pc EXCEPT ![w] = "failed"]
          /\ UNCHANGED <<feat, ei>>
  /\ begin' = [begin EXCEPT ![w] = store]
  /\ UNCHANGED <<data, store, clock, edits, cur, upd, new, computed, prev>>
  /\ UNCHANGED <<aborted, fan, mig, outcome>>

\* lines 76-167: one call of _save_environment_split_test up to the writes
Compute(w, e) ==
  /\ pc[w] = "loop"
  /\ e \in Todo(w)
  /\ LET f == feat[w] IN
     IF fsCount[<<f, e>>] # 1
     THEN /\ pc' = [pc EXCEPT ![w] = "failed"]
          /\ UNCHANGED <<clock, cur, upd, new, computed>>
     ELSE LET evaluated == EvaluatedIdentities(e, ei[w][e])
              conversion_identities == ConversionEvents(e, evaluated)
              counts == CountLoop(evaluated, f, e, conversion_identities,
                                  InitialCounts(f), InitialCounts(f))
              pvalue == gather_split_test_metrics(counts[1], counts[2])
          IN /\ clock' = clock + 1
             /\ upd' = [upd EXCEPT ![w] =
                   ExistingSplitTests(store, f, e, counts[1], counts[2], pvalue, clock')]
             /\ new' = [new EXCEPT ![w] =
                   NewSplitTests(store, f, e, counts[1], counts[2], pvalue, clock')]
             /\ cur' = [cur EXCEPT ![w] = e]
             /\ computed' = [computed EXCEPT ![w] =
                   [x \in DOMAIN @ \cup {e} |->
                      IF x = e THEN [evaluation_counts |-> counts[1],
                                     conversion_counts |-> counts[2],
                                     pvalue |-> pvalue]
                      ELSE @[x]]]
             /\ pc' = [pc EXCEPT ![w] = "computed"]
  /\ UNCHANGED <<data, store, edits, runs, feat, ei, prev>>
  /\ UNCHANGED <<begin, aborted, fan, mig, queue, outcome>>

\* lines 169-172
BulkUpdate(w) ==
  /\ pc[w] = "computed"
  /\ store' = bulk_update(store, upd[w])
  /\ pc' = [pc EXCEPT ![w] = "updated"]
  /\ UNCHANGED <<data, clock, edits, runs, locals, prev>>
  /\ UNCHANGED <<begin, aborted, fan, mig, queue, outcome>>

\* line 173
BulkCreate(w) ==
  /\ pc[w] = "updated"
  /\ store' = bulk_create(store, new[w])
  /\ pc' = [pc EXCEPT ![w] = "loop"]
  /\ cur' = [cur EXCEPT ![w] = None]
  /\ upd' = [upd EXCEPT ![w] = {}]
  /\ new' = [new EXCEPT ![w] = <<>>]
  /\ UNCHANGED <<data, clock, edits, runs, feat, ei, computed, prev>>
  /\ UNCHANGED <<begin, aborted, fan, mig, queue, outcome>>

\* line 62: the loop over environment_identifiers.items() is exhausted
Finish(w) ==
  /\ pc[w] = "loop"
  /\ Todo(w) = {}
  /\ pc' = [pc EXCEPT ![w] = "done"]
  /\ UNCHANGED <<data, store, clock, edits, runs, locals, prev>>
  /\ UNCHANGED <<begin, aborted, fan, mig, queue, outcome>>

\* the task processor gives the unit up (time limit) part-way
Abandon(w) ==
  /\ pc[w] \in {"loop", "computed", "updated"}
  /\ pc' = [pc EXCEPT ![w] = "failed"]
  /\ UNCHANGED <<data, store, clock, edits, runs, locals, prev>>
  /\ UNCHANGED <<begin, aborted, fan, mig, queue, outcome>>

\* the error of a failed unit takes the waiting work items down with it
Return_dropping_queue(w) ==
  /\ pc[w] \in {"done", "failed"}
  /\ prev' = IF pc[w] = "done" THEN [f |-> feat[w], rows |-> store] ELSE NoPrev
  /\ pc' = [pc EXCEPT ![w] = "idle"]
  /\ feat' = [feat EXCEPT ![w] = 0]
  /\ ei' = [ei EXCEPT ![w] = Empty]
  /\ cur' = [cur EXCEPT ![w] = None]
  /\ upd' = [upd EXCEPT ![w] = {}]
  /\ new' = [new EXCEPT ![w] = <<>>]
  /\ computed' = [computed EXCEPT ![w] = Empty]
  /\ aborted' = IF pc[w] = "failed" /\ feat[w] # 0
                THEN [f |-> feat[w], rows |-> begin[w]] ELSE NoPrev
  /\ begin' = [begin EXCEPT ![w] = <<>>]
  /\ outcome' = IF fanPc # "idle" /\ feat[w] # 0
                THEN [x \in DOMAIN outcome \cup {feat[w]} |->
                        IF x = feat[w] THEN pc[w] ELSE outcome[x]]
                ELSE outcome
  /\ queue' = IF pc[w] = "failed" THEN <<>> ELSE queue
  /\ UNCHANGED <<data, store, clock, edits, runs, fan, mig>>

\* the worker is free again
Return(w) ==
  /\ pc[w] \in {"done", "failed"}
  /\ prev' = IF pc[w] = "done" THEN [f |-> feat[w], rows |-> store] ELSE NoPrev
  /\ pc' = [pc EXCEPT ![w] = "idle"]
  /\ feat' = [feat EXCEPT ![w] = 0]
  /\ ei' = [ei EXCEPT ![w] = Empty]
  /\ cur' = [cur EXCEPT ![w] = None]
  /\ upd' = [upd EXCEPT ![w] = {}]
  /\ new' = [new EXCEPT ![w] = <<>>]
  /\ computed' = [computed EXCEPT ![w] = Empty]
  /\ aborted' = IF pc[w] = "failed" /\ feat[w] # 0
                THEN [f |-> feat[w], rows |-> begin[w]] ELSE NoPrev
  /\ begin' = [begin EXCEPT ![w] = <<>>]
  /\ outcome' = IF fanPc # "idle" /\ feat[w] # 0
                THEN [x \in DOMAIN outcome \cup {feat[w]} |->
                        IF x = feat[w] THEN pc[w] ELSE outcome[x]]
                ELSE outcome
  /\ UNCHANGED <<data, store, clock, edits, runs, fan, mig, queue>>

\* ------------------------------------------------- the data changes between runs
CanEdit(maxEdits, maxRuns) ==
  /\ Quiescent
  /\ edits < maxEdits
  /\ runs < maxRuns
  /\ edits' = edits + 1
  /\ prev' = NoPrev
  /\ aborted' = NoPrev
  /\ fanPc = "idle"
  /\ UNCHANGED <<store, clock, runs, pc, locals, begin, fan, mig, queue, outcome>>

AddEvaluation(k, maxEdits, maxRuns) ==
  /\ CanEdit(maxEdits, maxRuns)
  /\ rawEvals[k] < MaxDup
  /\ rawEvals' = [rawEvals EXCEPT ![k] = @ + 1]
  /\ UNCHANGED <<identities, convEvents, options, fsCount>>

DeleteEvaluations(k, maxEdits, maxRuns) ==
  /\ CanEdit(maxEdits, maxRuns)
  /\ rawEvals[k] > 0
  /\ rawEvals' = [rawEvals EXCEPT ![k] = 0]
  /\ UNCHANGED <<identities, convEvents, options, fsCount>>

AddIdentity(i, maxEdits, maxRuns) ==
  /\ CanEdit(maxEdits, maxRuns)
  /\ i \notin identities
  /\ identities' = identities \cup {i}
  /\ UNCHANGED <<rawEvals, convEvents, options, fsCount>>

DeleteIdentity(i, maxEdits, maxRuns) ==
  /\ CanEdit(maxEdits, maxRuns)
  /\ i \in identities
  /\ identities' = identities \ {i}
  /\ convEvents' = [convEvents EXCEPT ![i] = 0]
  /\ UNCHANGED <<rawEvals, options, fsCount>>

AddConversion(i, maxEdits, maxRuns) ==
  /\ CanEdit(maxEdits, maxRuns)
  /\ i \in identities
  /\ convEvents[i] < MaxDup
  /\ convEvents' = [convEvents EXCEPT ![i] = @ + 1]
  /\ UNCHANGED <<rawEvals, identities, options, fsCount>>

AddVariant(f, o, maxEdits, maxRuns) ==
  /\ CanEdit(maxEdits, maxRuns)
  /\ o \in OptionIds(f) \ options[f]
  /\ options' = [options EXCEPT ![f] = @ \cup {o}]
  /\ UNCHANGED <<rawEvals, identities, convEvents, fsCount>>

RemoveVariant(f, o, maxEdits, maxRuns) ==
  /\ CanEdit(maxEdits, maxRuns)
  /\ o \in options[f]
  /\ options' = [options EXCEPT ![f] = @ \ {o}]
  /\ UNCHANGED <<rawEvals, identities, convEvents, fsCount>>

\* a segment or identity override adds a FeatureState row; removing it drops one
SetOverride(f, e, maxEdits, maxRuns) ==
  /\ CanEdit(maxEdits, maxRuns)
  /\ fsCount' = [fsCount EXCEPT ![<<f, e>>] = 3 - @]
  /\ UNCHANGED <<rawEvals, identities, convEvents, options>>

Edit(maxEdits, maxRuns) ==
  \/ \E k \in EvalKeys : AddEvaluation(k, maxEdits, maxRuns)
  \/ \E k \in EvalKeys : DeleteEvaluations(k, maxEdits, maxRuns)
  \/ \E i \in AllIdentities : AddIdentity(i, maxEdits, maxRuns)
  \/ \E i \in AllIdentities : DeleteIdentity(i, maxEdits, maxRuns)
  \/ \E i \in AllIdentities : AddConversion(i, maxEdits, maxRuns)
  \/ \E f \in Features : \E o \in OptionIds(f) : AddVariant(f, o, maxEdits, maxRuns)
  \/ \E f \in Features : \E o \in OptionIds(f) : RemoveVariant(f, o, maxEdits, maxRuns)
  \/ \E f \in Features : \E e \in Envs : SetOverride(f, e, maxEdits, maxRuns)

Run(w, maxRuns) ==
  \/ \E fid \in FeatureIds : Start(w, fid, maxRuns) /\ UNCHANGED queue
  \/ \E e \in Envs : Compute(w, e)
  \/ BulkUpdate(w)
  \/ BulkCreate(w)
  \/ Finish(w)
  \/ Abandon(w)
  \/ Return(w)

\* runs never overlap: one worker
Next == Edit(MaxEdits, MaxRuns) \/ Run(1, MaxRuns)
Spec == Init /\ [][Next]_vars

\* runs may overlap: two workers
NextConc == Edit(MaxEditsConc, MaxRunsConc) \/ \E w \in Workers : Run(w, MaxRunsConc)
SpecConc == Init /\ [][NextConc]_vars

\* overlapping runs for one feature, then later runs on changed evaluation
\* and conversion data of one environment
NextDup ==
  \/ \E u \in Identifiers : AddEvaluation(<<FeatureName(1), 1, u>>, MaxEditsDup, MaxRunsDup)
  \/ \E u \in Identifiers : AddConversion(<<1, u>>, MaxEditsDup, MaxRunsDup)
  \/ \E w \in Workers :
        \/ Start(w, 1, MaxRunsDup) /\ UNCHANGED queue
        \/ \E e \in Envs : Compute(w, e)
        \/ BulkUpdate(w)
        \/ BulkCreate(w)
        \/ Finish(w)
        \/ Return(w)
SpecDup == Init /\ [][NextDup]_vars

\* ------------------------------------------------------- _update_split_tests
\* the query without its type filter
MultivariateFeatures_unfiltered == Features

\* line 31: Feature.objects.filter(type=MULTIVARIATE)
MultivariateFeatures == {f \in Features : ftype[f] = MULTIVARIATE}

Untouched ==
  <<data, store, clock, edits, runs, pc, locals, prev, begin, aborted, ftype,
    outcome, mig>>

\* lines 29-31: the recurring task starts and runs its query
FanStart ==
  /\ fanPc = "idle"
  /\ Quiescent
  /\ fanPc' = "loop"
  /\ fanTodo' = MultivariateFeatures
  /\ UNCHANGED <<Untouched, queue, sent>>

\* lines 32-37: update_features_split_tests.delay(kwargs={"feature_id": feature.id})
Enqueue(f) ==
  /\ fanPc = "loop"
  /\ f \in fanTodo
  /\ fanTodo' = fanTodo \ {f}
  /\ queue' = Append(queue, f)
  /\ sent' = Append(sent, f)
  /\ UNCHANGED <<Untouched, fanPc>>

\* the loop of line 32 is exhausted
FanFinish ==
  /\ fanPc = "loop"
  /\ fanTodo = {}
  /\ fanPc' = "done"
  /\ UNCHANGED <<Untouched, fanTodo, queue, sent>>

\* a worker of the task processor picks the oldest work item up
Dequeue(w) ==
  /\ queue # <<>>
  /\ Start(w, Head(queue), MaxRunsFan)
  /\ queue' = Tail(queue)

\* a work item that names no multivariate feature reaches the handler
StartStale(w, fid) ==
  /\ fid \notin MultivariateFeatures
  /\ Start(w, fid, MaxRunsFan)
  /\ UNCHANGED queue

InitFan ==
  /\ InitTables
  /\ ftype \in {t \in [Features -> {MULTIVARIATE, STANDARD}] : t[1] = MULTIVARIATE}
  /\ mig = NoRequest

\* the work items are run one at a time, on data set up before the fan-out
NextFan ==
  \/ \E k \in EvalKeys :
        runs = 0 /\ k[3] # NULL /\ AddEvaluation(k, MaxEditsFan, MaxRunsFan)
  \/ \E f \in Features : \E e \in Envs :
        runs = 0 /\ SetOverride(f, e, MaxEditsFan, MaxRunsFan)
  \/ FanStart
  \/ \E f \in Features : Enqueue(f)
  \/ FanFinish
  \/ Dequeue(1)
  \/ \E fid \in FeatureIds : StartStale(1, fid)
  \/ \E e \in Envs : Compute(1, e)
  \/ BulkUpdate(1)
  \/ BulkCreate(1)
  \/ Finish(1)
  \/ Return(1)
SpecFan == InitFan /\ [][NextFan]_vars

\* ------------------------------------------------------------ migrate_to_edge
\* views.py line 166: Identity.objects.filter(environment__project=project).count();
\* every environment of the model belongs to the project of the request
IdentityCount == Cardinality(identities)

\* the comparison made inclusive
TooManyIdentities_inclusive(identity_count, max_identities) ==
  identity_count >= max_identities

\* views.py line 168: identity_count > settings.MAX_SELF_MIGRATABLE_IDENTITIES
TooManyIdentities(identity_count, max_identities) ==
  identity_count > max_identities

\* views.py lines 161-177, in the order of the code: the setting, get_object,
\* the count, the migrator's can_migrate; what is raised, or the 202
Response(table, found, identity_count, max_identities, can_migrate) ==
  IF ~table THEN "DynamoNotEnabledError"
  ELSE IF ~found THEN "Http404"
  ELSE IF TooManyIdentities(identity_count, max_identities)
         THEN "TooManyIdentitiesError"
  ELSE IF ~can_migrate THEN "ProjectMigrationError"
  ELSE "HTTP_202_ACCEPTED"

\* one request; found is what get_object sees and can_migrate what the
\* IdentityMigrator of the project reports; trigger_migration is called on
\* line 176 only, counted in triggered
migrate_to_edge(found, can_migrate) ==
  /\ mig.requests < MaxRequests
  /\ LET response == Response(mig.table, found, IdentityCount,
                               mig.max_identities, can_migrate)
     IN mig' = [mig EXCEPT
                  !.found = found,
                  !.can_migrate = can_migrate,
                  !.identity_count = IdentityCount,
                  !.response = response,
                  !.triggered = IF response = "HTTP_202_ACCEPTED" THEN @ + 1 ELSE @,
                  !.requests = @ + 1]
  /\ UNCHANGED <<data, store, clock, edits, runs, pc, locals, prev, begin,
                 aborted, fan, queue, outcome>>

\* the settings are drawn at start-up; identities come and go between requests
InitMigrate ==
  /\ InitTables
  /\ ftype = [f \in Features |-> MULTIVARIATE]
  /\ mig \in {[NoRequest EXCEPT !.table = t, !.max_identities = m] :
                t \in BOOLEAN, m \in 0..MaxLimit}

NextMigrate ==
  \/ \E i \in AllIdentities : AddIdentity(i, MaxEditsMigrate, MaxRuns)
  \/ \E i \in AllIdentities : DeleteIdentity(i, MaxEditsMigrate, MaxRuns)
  \/ \E found \in BOOLEAN : \E can_migrate \in BOOLEAN :
        migrate_to_edge(found, can_migrate)
SpecMigrate == InitMigrate /\ [][NextMigrate]_vars
\* ------------------------------------------------------------- properties
Arms(f) == options[f] \cup {None}
Rows == 1..Len(store)
Key(r) == <<r.feature, r.environment, r.option>>
Keys(rows) == {Key(rows[k]) : k \in 1..Len(rows)}
Values(r) == [evaluation_count |-> r.evaluation_count,
              conversion_count |-> r.conversion_count,
              pvalue |-> r.pvalue]

\* the distinct identifiers of the non-anonymous raw records of f in e
ExposedIdentifiers(f, e) ==
  {u \in Identifiers : rawEvals[<<FeatureName(f), e, u>>] > 0}

\* the exposed users of f in e that resolve to arm a
ExposedInArm(f, e, a) ==
  {i \in identities : i[1] = e /\ i[2] \in ExposedIdentifiers(f, e) /\ ArmId(f, e, i) = a}

\* C1: with runs that never overlap, the store holds at most one row per
\* (feature, environment, arm)
C1_OneRowPerArm ==
  \A j, k \in Rows : Key(store[j]) = Key(store[k]) => j = k

\* a run found the rows of an earlier run and has updated them in place
C1_Witness ==
  /\ pc[1] = "updated"
  /\ upd[1] # {}
  /\ new[1] = <<>>
  /\ runs = 2

\* C2: after two overlapping runs for the same feature, every arm of every
\* environment both processed has exactly one row, holding the values one of
\* the two runs computed
C2_LastWriterWins ==
  (pc[1] = "done" /\ pc[2] = "done" /\ feat[1] = feat[2]) =>
    \A e \in Saved(1) \cap Saved(2) : \A a \in Arms(feat[1]) :
      /\ Cardinality(Matches(store, feat[1], e, a)) = 1
      /\ \A k \in Matches(store, feat[1], e, a) : \E w \in Workers :
           /\ store[k].evaluation_count = computed[w][e].evaluation_counts[a]
           /\ store[k].conversion_count = computed[w][e].conversion_counts[a]
           /\ store[k].pvalue = computed[w][e].pvalue

\* C3: after a completed run, the evaluation counts of the arm rows of every
\* processed environment add up to the number of distinct identifiers in the
\* non-anonymous raw records of the feature in that environment
C3_Conservation ==
  pc[1] = "done" =>
    \A e \in Saved(1) :
      SumOver({k \in Rows : /\ store[k].feature = feat[1]
                            /\ store[k].environment = e
                            /\ store[k].option \in Arms(feat[1])},
              [k \in Rows |-> store[k].evaluation_count])
        = Cardinality(ExposedIdentifiers(feat[1], e))

\* C4: every persisted row has conversion_count <= evaluation_count
C4_ConversionBound ==
  \A k \in Rows : store[k].conversion_count <= store[k].evaluation_count

\* a row that counts once a user who has several conversion events
C4_Witness ==
  \E k \in Rows :
    /\ store[k].conversion_count = 1
    /\ store[k].evaluation_count = 1
    /\ \E i \in ExposedInArm(store[k].feature, store[k].environment, store[k].option) :
         convEvents[i] = MaxDup

\* C5: a second run for the same feature on unchanged data leaves the same
\* rows with the same counts and pvalue, inserting none; only updated_at moves
C5_Idempotent ==
  (pc[1] = "done" /\ prev.f = feat[1]) =>
    /\ Len(store) = Len(prev.rows)
    /\ \A k \in Rows : /\ Key(store[k]) = Key(prev.rows[k])
                       /\ Values(store[k]) = Values(prev.rows[k])

\* the second of two runs has completed and refreshed a timestamp
C5_Witness ==
  /\ pc[1] = "done"
  /\ prev.f = feat[1]
  /\ \E k \in Rows : /\ store[k].updated_at # prev.rows[k].updated_at
                     /\ store[k].evaluation_count > 0

\* C6: the conversion_count written for an arm counts only users exposed to
\* the feature in that environment that converted in that environment
C6_OnlyExposedConvert ==
  \A e \in Saved(1) : \A a \in Arms(feat[1]) :
    /\ computed[1][e].conversion_counts[a]
         <= Cardinality({i \in ExposedInArm(feat[1], e, a) : convEvents[i] > 0})
    /\ \A k \in Matches(store, feat[1], e, a) :
         store[k].conversion_count
           <= Cardinality({i \in ExposedInArm(feat[1], e, a) : convEvents[i] > 0})

\* an environment was saved while an unexposed user of it had converted and
\* an exposed user had converted only in the other environment
C6_Witness ==
  /\ pc[1] = "done"
  /\ \E e \in Saved(1) :
       /\ \E i \in identities :
            /\ i[1] = e
            /\ convEvents[i] > 0
            /\ i[2] \notin ExposedIdentifiers(feat[1], e)
       /\ \E u \in ExposedIdentifiers(feat[1], e) :
            /\ <<e, u>> \in identities
            /\ convEvents[<<e, u>>] = 0
            /\ \E e2 \in Envs \ {e} : <<e2, u>> \in identities /\ convEvents[<<e2, u>>] > 0

\* C7: after the save call of an environment, Control and every configured
\* variant has a row, and the row of an arm without exposed users holds 0 / 0
C7_EveryArmHasRow ==
  \A e \in Saved(1) : \A a \in Arms(feat[1]) :
    /\ Matches(store, feat[1], e, a) # {}
    /\ ExposedInArm(feat[1], e, a) = {} =>
         \A k \in Matches(store, feat[1], e, a) :
           store[k].evaluation_count = 0 /\ store[k].conversion_count = 0

\* an environment was saved in which one arm has users and another has none
C7_Witness ==
  \E e \in Saved(1) : \E a, b \in Arms(feat[1]) :
    /\ ExposedInArm(feat[1], e, a) = {}
    /\ ExposedInArm(feat[1], e, b) # {}
    /\ \E k \in Matches(store, feat[1], e, a) : store[k].evaluation_count = 0

\* C8: after a completed run, no row of a configured arm that has no exposed
\* users is left with non-zero counts
C8_ZeroOverwrites ==
  pc[1] = "done" =>
    \A e \in Envs : \A a \in Arms(feat[1]) :
      ExposedInArm(feat[1], e, a) = {} =>
        \A k \in Matches(store, feat[1], e, a) :
          store[k].evaluation_count = 0 /\ store[k].conversion_count = 0

\* C9: no step deletes a row: the rows present before a step are present
\* after it, under the same key
C9_NoDeletion ==
  [][/\ Len(store) <= Len(store')
     /\ \A k \in Rows : Key(store'[k]) = Key(store[k])]_vars

\* a run was given up after it had written an environment
C9_Witness ==
  /\ pc[1] = "failed"
  /\ Saved(1) # {}
  /\ Len(store) > 0

\* C10: after the save call of an environment, the rows of all configured
\* arms hold the one pvalue that call computed
C10_OnePvalue ==
  \A e \in Saved(1) : \A a \in Arms(feat[1]) :
    \A k \in Matches(store, feat[1], e, a) :
      store[k].pvalue = computed[1][e].pvalue

\* a later run has saved an environment whose rows it updated and whose
\* counts differ from zero
C10_Witness ==
  /\ runs = 2
  /\ \E e \in Saved(1) :
       /\ \E a \in Arms(feat[1]) : computed[1][e].evaluation_counts[a] > 0
       /\ \E k \in Matches(store, feat[1], e, None) : k <= 2 /\ store[k].updated_at > 2
\* the counts and the pvalue a run of f on the present data gives environment e
ExpectedEvaluations(f, e) ==
  [a \in Arms(f) |-> Cardinality(ExposedInArm(f, e, a))]
ExpectedConversions(f, e) ==
  [a \in Arms(f) |-> Cardinality({i \in ExposedInArm(f, e, a) : convEvents[i] > 0})]
ExpectedValues(f, e, a) ==
  [evaluation_count |-> ExpectedEvaluations(f, e)[a],
   conversion_count |-> ExpectedConversions(f, e)[a],
   pvalue |-> gather_split_test_metrics(ExpectedEvaluations(f, e),
                                        ExpectedConversions(f, e))]
\* the rows of one arm, selected by their fields
ArmRows(f, e, a) ==
  {k \in Rows : Key(store[k]) = <<f, e, a>>}
Occurrences(seq, x) == Cardinality({k \in 1..Len(seq) : seq[k] = x})

\* C11: one invocation of _update_split_tests enqueues exactly one work item
\* for each multivariate feature, carrying its id, and none for other features
C11_OneItemPerMultivariate ==
  fanPc = "done" =>
    /\ \A k \in 1..Len(sent) : sent[k] \in Features
    /\ \A f \in Features :
         Occurrences(sent, f) = IF ftype[f] = MULTIVARIATE THEN 1 ELSE 0

\* the fan-out has ended where one feature is multivariate and one is not
C11_Witness ==
  /\ fanPc = "done"
  /\ ftype[2] = STANDARD
  /\ sent = <<1>>

\* C12: a run whose feature_id names no existing multivariate feature ends in
\* an error: it never gets past loading the feature and writes no row
C12_NonMultivariateFails ==
  /\ \A w \in Workers :
       pc[w] \in {"loop", "computed", "updated", "done"} => ftype[feat[w]] = MULTIVARIATE
  /\ \A k \in Rows : ftype[store[k].feature] = MULTIVARIATE

\* C14: when a unit of the invocation has failed and all work has ended, every
\* other enqueued unit was dispatched, and each one whose own data lets it
\* complete has completed and left the rows it gives when run alone
C14_SiblingsUnaffected ==
  (fanPc = "done" /\ queue = <<>> /\ Quiescent
     /\ \E f \in DOMAIN outcome : outcome[f] = "failed") =>
    \A k \in 1..Len(sent) : LET g == sent[k] IN
      /\ g \in DOMAIN outcome
      /\ (\A e \in Envs : ExposedIdentifiers(g, e) # {} => fsCount[<<g, e>>] = 1) =>
           /\ outcome[g] = "done"
           /\ \A e \in Envs : \A a \in Arms(g) :
                IF ExposedIdentifiers(g, e) = {} THEN ArmRows(g, e, a) = {}
                ELSE /\ Cardinality(ArmRows(g, e, a)) = 1
                     /\ \A r \in ArmRows(g, e, a) :
                          Values(store[r]) = ExpectedValues(g, e, a)

\* one unit failed on its feature states and its sibling completed with counts
C14_Witness ==
  /\ fanPc = "done" /\ queue = <<>> /\ Quiescent
  /\ \E f, g \in DOMAIN outcome :
       /\ outcome[f] = "failed"
       /\ outcome[g] = "done"
       /\ ftype[f] = MULTIVARIATE /\ ftype[g] = MULTIVARIATE
       /\ \E r \in Rows : store[r].feature = g /\ store[r].evaluation_count > 0
LowestRow(f, e, a) == CHOOSE k \in ArmRows(f, e, a) : \A j \in ArmRows(f, e, a) : k <= j
\* the workers that take a step
Stepping == {w \in Workers : pc'[w] # pc[w]}

\* two completed runs for different features: each feature's rows hold what
\* its run gives alone
BothRunsAsAlone ==
  (pc[1] = "done" /\ pc[2] = "done" /\ feat[1] # feat[2]) =>
    \A w \in Workers : \A e \in Saved(w) : \A a \in Arms(feat[w]) :
      /\ ArmRows(feat[w], e, a) # {}
      /\ Values(store[LowestRow(feat[w], e, a)]) = ExpectedValues(feat[w], e, a)

\* C13: a step of a run for feature F changes and adds rows of F only, and
\* when two runs for different features have both completed, however their
\* steps interleaved, each feature's rows hold what its run gives alone
C13_OtherFeaturesUntouched ==
  [][/\ Len(store') >= Len(store)
     /\ \A k \in 1..Len(store') :
          (k > Len(store) \/ store'[k] # store[k]) =>
             \E w \in Stepping : feat[w] = store'[k].feature
     /\ BothRunsAsAlone'
    ]_vars

\* two runs for different features have completed after their writes interleaved
C13_Witness ==
  /\ pc[1] = "done" /\ pc[2] = "done"
  /\ feat[1] # feat[2]
  /\ Saved(1) # {} /\ Saved(2) # {}
  /\ \E j, k \in Rows : /\ j < k
                        /\ store[j].updated_at > store[k].updated_at
                        /\ store[j].feature # store[k].feature
\* one uninterrupted call of _save_environment_split_test on rows
SaveEnvironment(rows, f, e, identifiers, now) ==
  LET evaluated == EvaluatedIdentities(e, identifiers)
      conversion_identities == ConversionEvents(e, evaluated)
      counts == CountLoop(evaluated, f, e, conversion_identities,
                          InitialCounts(f), InitialCounts(f))
      pvalue == gather_split_test_metrics(counts[1], counts[2])
  IN bulk_create(
       bulk_update(rows, ExistingSplitTests(rows, f, e, counts[1], counts[2], pvalue, now)),
       NewSplitTests(rows, f, e, counts[1], counts[2], pvalue, now))

\* one uninterrupted run of update_features_split_tests on rows
RECURSIVE SaveAll(_, _, _, _)
SaveAll(rows, f, groups, todo) ==
  IF todo = {} THEN rows
  ELSE LET e == CHOOSE x \in todo : TRUE
       IN SaveAll(SaveEnvironment(rows, f, e, groups[e], clock), f, groups, todo \ {e})
UninterruptedRun(rows, f) ==
  LET groups == EnvironmentIdentifiers(QsValuesList(f))
  IN SaveAll(rows, f, groups, DOMAIN groups)
Content(rows) == {<<Key(rows[k]), Values(rows[k])>> : k \in 1..Len(rows)}

\* C15: a run given up part-way and then retried to completion on unchanged
\* data leaves the rows, counts and pvalue of one uninterrupted run, without
\* a duplicate row
C15_RetryAsUninterrupted ==
  (pc[1] = "done" /\ aborted.f = feat[1]) =>
    /\ Len(store) = Len(UninterruptedRun(aborted.rows, feat[1]))
    /\ Content(store) = Content(UninterruptedRun(aborted.rows, feat[1]))
    /\ \A j, k \in Rows : Key(store[j]) = Key(store[k]) => j = k

\* the retry has completed after a run that was given up with rows written
C15_Witness ==
  /\ pc[1] = "done"
  /\ aborted.f = feat[1]
  /\ Len(begin[1]) > Len(aborted.rows)
  /\ Len(store) > Len(begin[1])
\* C16: in a save call each exposed user adds one to the evaluation_count of
\* the one arm it resolves to, and one to that arm's conversion_count if it
\* converted, whatever the number of its raw records and conversion events
C16_OncePerUser ==
  \A e \in Saved(1) :
    /\ computed[1][e].evaluation_counts = ExpectedEvaluations(feat[1], e)
    /\ computed[1][e].conversion_counts = ExpectedConversions(feat[1], e)
    /\ SumOver(Arms(feat[1]), computed[1][e].evaluation_counts)
         = Cardinality({i \in identities : i[1] = e /\ i[2] \in ExposedIdentifiers(feat[1], e)})

\* a saved environment has a converted user with repeated raw records or
\* repeated conversion events, counted once
C16_Witness ==
  \E e \in Saved(1) : \E a \in Arms(feat[1]) : \E i \in ExposedInArm(feat[1], e, a) :
    /\ convEvents[i] >= 1
    /\ rawEvals[<<FeatureName(feat[1]), e, i[2]>>] + convEvents[i] > 2
    /\ computed[1][e].evaluation_counts[a] = 1
    /\ computed[1][e].conversion_counts[a] = 1

\* what a run reads and computes does not depend on the anonymous records
AnonymousIgnored ==
  pc[1] \in {"loop", "computed", "updated", "done"} =>
    /\ DOMAIN ei[1] = {e \in Envs : ExposedIdentifiers(feat[1], e) # {}}
    /\ \A e \in DOMAIN ei[1] : ei[1][e] = ExposedIdentifiers(feat[1], e)
    /\ \A e \in Saved(1) :
         computed[1][e].evaluation_counts = ExpectedEvaluations(feat[1], e)

\* C17: records without a user identifier add to no count and raise nothing: a
\* run reads the identified records only, and no row of an environment
\* without identified records is written
C17_AnonymousExcluded ==
  [][/\ \A k \in 1..Len(store') :
          (k > Len(store) \/ store'[k] # store[k]) =>
             ExposedIdentifiers(store'[k].feature, store'[k].environment) # {}
     /\ AnonymousIgnored'
    ]_vars

\* a run completed where one environment has anonymous records only and got
\* no row, and another has anonymous records beside identified ones
C17_Witness ==
  /\ pc[1] = "done"
  /\ \E e \in Envs \ Saved(1) :
       /\ rawEvals[<<FeatureName(feat[1]), e, NULL>>] > 0
       /\ \A k \in Rows : store[k].environment # e
  /\ \E e \in Saved(1) : rawEvals[<<FeatureName(feat[1]), e, NULL>>] > 0

\* C18: no step changes a row whose arm is a variant no longer configured on
\* its feature
C18_RemovedVariantUntouched ==
  [][\A k \in Rows :
       store[k].option \notin Arms(store[k].feature) => store'[k] = store[k]]_vars

\* a run completed that refreshed the arms of an environment and left the
\* row of a removed variant as it was
C18_Witness ==
  /\ pc[1] = "done"
  /\ \E k, j \in Rows :
       /\ store[k].feature = feat[1] /\ store[j].feature = feat[1]
       /\ store[k].environment \in Saved(1)
       /\ store[j].environment = store[k].environment
       /\ store[k].option \notin Arms(feat[1])
       /\ store[j].option \in Arms(feat[1])
       /\ store[j].updated_at > store[k].updated_at
\* C19: where an arm has two or more rows, a step changes none of them but
\* the one with the lowest primary key and removes none, and a save call that
\* starts there puts that one row in its update list and no row of the arm
\* in its create list
C19_DuplicatesStay ==
  [][\A f \in Features : \A e \in Envs : \A a \in OptionIds(f) \cup {None} :
       Cardinality(ArmRows(f, e, a)) >= 2 =>
         /\ \A k \in ArmRows(f, e, a) \ {LowestRow(f, e, a)} :
              k <= Len(store') /\ store'[k] = store[k]
         /\ LowestRow(f, e, a) <= Len(store')
         /\ Key(store'[LowestRow(f, e, a)]) = <<f, e, a>>
         /\ \A w \in Workers :
              (pc[w] = "loop" /\ pc'[w] = "computed" /\ feat[w] = f
                 /\ cur'[w] = e /\ a \in Arms(f)) =>
                /\ \A k \in 1..Len(new'[w]) : new'[w][k].option # a
                /\ {u.pk : u \in {v \in upd'[w] : v.row.option = a}}
                     = {LowestRow(f, e, a)}
    ]_vars

\* an arm has two rows, the one with the lowest primary key refreshed by a
\* later run and the other left with the values of an earlier run
C19_Witness ==
  \E j, k \in Rows :
    /\ j < k
    /\ Key(store[j]) = Key(store[k])
    /\ Values(store[j]) # Values(store[k])
    /\ store[j].updated_at > store[k].updated_at

\* C20: a request for an existing project answers 202 exactly when the Dynamo
\* table is configured, the project's identity count is at most
\* MAX_SELF_MIGRATABLE_IDENTITIES and the migrator reports can_migrate, and
\* then triggers one migration; otherwise it raises DynamoNotEnabledError,
\* TooManyIdentitiesError or ProjectMigrationError, the first in this order
\* whose condition holds, and triggers none; no request triggers a migration
\* unless the three conditions hold
C20_MigrateGuards ==
  [][mig'.requests = mig.requests + 1 =>
       LET r == mig'
           allowed == /\ r.table
                      /\ r.identity_count <= r.max_identities
                      /\ r.can_migrate
       IN /\ r.identity_count = Cardinality(identities)
          /\ r.triggered # mig.triggered => r.found /\ allowed
          /\ r.found =>
               /\ (r.response = "HTTP_202_ACCEPTED") <=> allowed
               /\ r.triggered = mig.triggered + (IF allowed THEN 1 ELSE 0)
               /\ ~allowed =>
                    r.response =
                      IF ~r.table THEN "DynamoNotEnabledError"
                      ELSE IF r.identity_count > r.max_identities
                             THEN "TooManyIdentitiesError"
                      ELSE "ProjectMigrationError"
    ]_vars

\* after a request that raised, a request with the identity count exactly at
\* the limit was accepted and triggered the one migration
C20_Witness ==
  /\ mig.requests = 2
  /\ mig.found
  /\ mig.response = "HTTP_202_ACCEPTED"
  /\ mig.identity_count = mig.max_identities
  /\ mig.identity_count > 0
  /\ mig.triggered = 1

====
